---------------------------- MODULE Spec2Model ----------------------------
(* English speech -> Japanese subtitle generator (src/main.py).              *)
(*                                                                          *)
(* Python values are modelled as follows.                                   *)
(*   str     a sequence of one-character strings (error messages are kept   *)
(*           as a sequence of chunks: a label and, where the source appends *)
(*           the exception text, a chunk standing for it);                  *)
(*   float   a seconds value [sec, tk]: whole seconds and tenths of a       *)
(*           microsecond (TicksPerSec per second), standing for the double  *)
(*           nearest to that decimal;                                       *)
(*   str-or-dict results carry a "type" field ("str" / "dict").             *)
(* Japanese literals of the source are written as ASCII tags; the comment   *)
(* at each tag names the source line of the literal.                        *)
(* The status bar and the progress label (status_var, progress_var) are     *)
(* write-only display texts and are not part of the state; the progress     *)
(* messages a worker reports are kept in its milestones history.            *)
EXTENDS Integers, Sequences, FiniteSets, TLC

VARIABLES
    client,            \* EnglishToJapaneseSubtitle.client: "None" or "OpenAI"
    current_segments,  \* SubtitleGeneratorGUI.current_segments
    messagebox,        \* the last dialog shown by tkinter.messagebox
    bilingual_text,    \* the three result views
    srt_text,
    japanese_text,
    last_write,        \* the last file written by a save action
    threads,           \* the process_thread workers started by open_file
    arg_seconds,       \* argument / results of the pure formatters
    ret_srt,
    ret_display,
    arg_segments,
    ret_content

gui_vars == <<client, current_segments, messagebox,
              bilingual_text, srt_text, japanese_text, last_write>>
fmt_vars == <<arg_seconds, ret_srt, ret_display, arg_segments, ret_content>>
vars == <<gui_vars, threads, fmt_vars>>

----------------------------------------------------------------------------
(* Bounds of the model.                                                     *)

MaxThreads == 2      \* worker threads alive at once
MaxSegments == 3     \* raw segments in one transcription response
MaxDenseSec == 61    \* whole seconds 0..MaxDenseSec are all formatted
MaxBlocks == 3       \* segments rendered by one generate_srt_content call

----------------------------------------------------------------------------
(* Python str helpers.                                                      *)

Whitespace == {" ", "\t", "\n"}

RECURSIVE LStrip(_)
LStrip(s) ==
    IF s # <<>> /\ Head(s) \in Whitespace THEN LStrip(Tail(s)) ELSE s

RECURSIVE RStrip(_)
RStrip(s) ==
    IF s # <<>> /\ s[Len(s)] \in Whitespace
    THEN RStrip(SubSeq(s, 1, Len(s) - 1))
    ELSE s

\* str.strip()
Strip(s) == RStrip(LStrip(s))

\* str.lower() on the letters that occur in the modelled paths
LowerChar(c) ==
    CASE c = "W" -> "w"
      [] c = "A" -> "a"
      [] c = "V" -> "v"
      [] c = "B" -> "b"
      [] c = "M" -> "m"
      [] c = "P" -> "p"
      [] OTHER -> c

Lower(s) == [i \in 1..Len(s) |-> LowerChar(s[i])]

\* str.endswith(suffix)
EndsWith(s, suffix) ==
    /\ Len(s) >= Len(suffix)
    /\ SubSeq(s, Len(s) - Len(suffix) + 1, Len(s)) = suffix

DigitChars == <<"0", "1", "2", "3", "4", "5", "6", "7", "8", "9">>

RECURSIVE Digits(_)
Digits(n) ==
    IF n < 10 THEN <<DigitChars[n + 1]>>
    ELSE Digits(n \div 10) \o <<DigitChars[(n % 10) + 1]>>

\* f"{n:0<width>d}": at least width digits, padded with zeros on the left
ZeroPad(n, width) ==
    LET d == Digits(n)
    IN  IF Len(d) >= width THEN d
        ELSE [i \in 1..(width - Len(d)) |-> "0"] \o d

----------------------------------------------------------------------------
(* Seconds values.                                                          *)

\* timedelta keeps microseconds; a tick is a tenth of one
TicksPerMicro == 10
TicksPerMilli == 1000 * TicksPerMicro
TicksPerSec == 1000000 * TicksPerMicro

Seconds(sec, tk) == [sec |-> sec, tk |-> tk]
Zero == Seconds(0, 0)

\* a + n whole seconds
PlusSec(a, n) == Seconds(a.sec + n, a.tk)


----------------------------------------------------------------------------
(* IEEE-754 double arithmetic of format_time_srt, in integers.              *)

RECURSIVE FloorLog2(_)
FloorLog2(n) == IF n < 2 THEN 0 ELSE 1 + FloorLog2(n \div 2)

RECURSIVE Pow2(_)
Pow2(e) == IF e <= 0 THEN 1 ELSE 2 * Pow2(e - 1)

RECURSIVE Pow2Mod1000(_)
\* 2^e modulo 1000, by repeated squaring
Pow2Mod1000(e) ==
    IF e <= 0 THEN 1
    ELSE IF e % 2 = 1 THEN (2 * Pow2Mod1000(e - 1)) % 1000
    ELSE (Pow2Mod1000(e \div 2) * Pow2Mod1000(e \div 2)) % 1000

RECURSIVE NegExponent(_, _)
NegExponent(ms, j) ==
    IF ms = 0 \/ ms * Pow2(j) >= 1000 THEN j ELSE NegExponent(ms, j + 1)

\* floor(log2(x)) of the double x = sec + ms/1000 > 0
Binade(sec, ms) ==
    IF sec >= 1 THEN FloorLog2(sec) ELSE 0 - NegExponent(ms, 0)

\* floor(log2(y)) of the doubles y just below the integer k >= 1
BinadeBelow(k) ==
    IF Pow2(FloorLog2(k)) = k THEN FloorLog2(k) - 1 ELSE FloorLog2(k)

\* The double nearest to sec + ms/1000 (ms in 1..999) is
\* sec + ms/1000 - (r/1000) * 2^-e, with r the remainder below. When it lies
\* under the decimal (0 < r < 500), (total_seconds() % 1) * 1000 is
\* ms - r * 2^-e before rounding, and rounds back to ms only when r * 2^-e is
\* at most half the spacing of the doubles below ms.
ProductFallsBelow(sec, ms) ==
    LET m == Binade(sec, ms)
        e == 52 - m
        r == (((sec * 1000 + ms) % 1000) * Pow2Mod1000(e)) % 1000
        t == BinadeBelow(ms) - 1 - m
    IN  /\ r > 0
        /\ r < 500
        /\ (t < 0 \/ r > Pow2(t))

\* timedelta(seconds=seconds): the value rounded to the nearest microsecond,
\* half to even, normalised to whole seconds and 0..999999 microseconds
timedelta(seconds) ==
    LET whole == seconds.tk \div TicksPerMicro
        rest == seconds.tk % TicksPerMicro
        up == 2 * rest > TicksPerMicro
              \/ (2 * rest = TicksPerMicro /\ whole % 2 = 1)
        us == IF up THEN whole + 1 ELSE whole
    IN  IF us = 1000000
        THEN [sec |-> seconds.sec + 1, us |-> 0]
        ELSE [sec |-> seconds.sec, us |-> us]

\* int((td.total_seconds() % 1) * 1000)
FracTimes1000(td) ==
    LET ms == td.us \div 1000
    IN  IF td.us % 1000 = 0 /\ ms > 0 /\ ProductFallsBelow(td.sec, ms)
        THEN ms - 1
        ELSE ms

----------------------------------------------------------------------------
(* Timestamp formatting and the two renderers.                              *)

format_time_srt(seconds) ==
    LET td == timedelta(seconds)
        hours == td.sec \div 3600
        minutes == (td.sec % 3600) \div 60
        secs == td.sec % 60
        millisecs == FracTimes1000(td)
    IN  ZeroPad(hours, 2) \o <<":">> \o ZeroPad(minutes, 2) \o <<":">>
        \o ZeroPad(secs, 2) \o <<",">> \o ZeroPad(millisecs, 3)

format_time_display_wrapping(seconds) ==
    LET minutes == (seconds.sec \div 60) % 60
        secs == seconds.sec % 60
    IN  ZeroPad(minutes, 2) \o <<":">> \o ZeroPad(secs, 2)

format_time_display(seconds) ==
    LET minutes == seconds.sec \div 60
        secs == seconds.sec % 60
    IN  ZeroPad(minutes, 2) \o <<":">> \o ZeroPad(secs, 2)

\* One SRT block of generate_srt_content, as its four lines
SrtBlock(i, segment) ==
    << Digits(i),
       format_time_srt(segment.start) \o <<" --> ">>
           \o format_time_srt(segment.end),
       segment.japanese,
       <<>> >>

RECURSIVE SrtBlocksFrom(_, _)
SrtBlocksFrom(subtitle_segments, i) ==
    IF i > Len(subtitle_segments) THEN <<>>
    ELSE SrtBlock(i, subtitle_segments[i])
         \o SrtBlocksFrom(subtitle_segments, i + 1)

\* The SRT text as its sequence of lines
generate_srt_content(subtitle_segments) ==
    SrtBlocksFrom(subtitle_segments, 1)

BilingualBlock(i, segment) ==
    << <<"[">> \o ZeroPad(i, 3) \o <<"] ">>
           \o format_time_display(segment.start) \o <<" - ">>
           \o format_time_display(segment.end),
       <<"EN: ">> \o segment.english,
       <<"JA: ">> \o segment.japanese,
       <<"----------------------------------------">>,
       <<>> >>

RECURSIVE BilingualBlocksFrom(_, _)
BilingualBlocksFrom(subtitle_segments, i) ==
    IF i > Len(subtitle_segments) THEN <<>>
    ELSE BilingualBlock(i, subtitle_segments[i])
         \o BilingualBlocksFrom(subtitle_segments, i + 1)

\* The bilingual text as its lines; "generated_at" stands for the
\* datetime.now() line of the banner
generate_bilingual_text(subtitle_segments) ==
    << <<"============================================================">>,
       <<"title">>,
       <<"generated_at">>,
       <<"============================================================">>,
       <<>> >>
    \o BilingualBlocksFrom(subtitle_segments, 1)


----------------------------------------------------------------------------
(* Files, transcripts and the str-or-dict results.                          *)

MaxFileBytes == 25 * 1024 * 1024

PathWavInDir == <<"d", "/", "a", ".", "w", "a", "v">>
PathWavUpper == <<"B", ".", "W", "A", "V">>
PathMp3 == <<"c", ".", "m", "p", "3">>
PathNoDot == <<"w", "a", "v">>
Paths == {PathWavInDir, PathWavUpper, PathMp3, PathNoDot}

\* A file on disk: its path, whether wave.open accepts it, its size in bytes
Files ==
    [ path : Paths, opens : BOOLEAN,
      size : {MaxFileBytes - 1, MaxFileBytes, MaxFileBytes + 1} ]

\* os.path.basename
RECURSIVE Basename(_)
Basename(path) ==
    IF \E i \in 1..Len(path) : path[i] = "/"
    THEN Basename(Tail(path))
    ELSE path

StrResult(chunks) == [type |-> "str", value |-> chunks]
NoResult == [type |-> "none"]

\* The messages of the source, as chunks; "e" stands for the exception text
ExtensionError == <<"wav_files_only">>                \* line 240
NoClientError == <<"api_key_not_set">>                \* lines 81, 125
ReadError == <<"wav_read_error: ", "e">>              \* line 76
TooLargeError == <<"file_too_large">>                 \* line 71
ValidMessage == <<"wav_file_is_valid">>               \* line 73
AsrError == <<"speech_recognition_error: ", "e">>     \* line 120
TranslationError == <<"translation_error: ", "e">>    \* line 153

\* file_path.lower().endswith('.wav')
HasWavExtension(path) == EndsWith(Lower(path), <<".", "w", "a", "v">>)

\* <<is_valid, message>>
validate_wav_file_inclusive(file) ==
    IF ~file.opens THEN <<FALSE, ReadError>>
    ELSE IF file.size >= MaxFileBytes THEN <<FALSE, TooLargeError>>
    ELSE <<TRUE, ValidMessage>>

validate_wav_file(file) ==
    IF ~file.opens THEN <<FALSE, ReadError>>
    ELSE IF file.size > MaxFileBytes THEN <<FALSE, TooLargeError>>
    ELSE <<TRUE, ValidMessage>>

RawTexts ==
    { <<"H", "i">>, <<" ", " ">>, <<" ", "B", "y", "e", "\n">> }

\* The raw segments of a response whose segment texts are texts
RawSegments(texts) ==
    [ i \in 1..Len(texts) |->
        [ start |-> Seconds(2 * (i - 1), 0),
          end |-> Seconds(2 * i - 1, 5 * TicksPerMilli * 100),
          text |-> texts[i] ] ]

FullText == <<"H", "e", "l", "l", "o">>
Duration == Seconds(12, 5 * TicksPerMilli * 100)

\* A response of the speech-recognition API (the transcript object)
Transcript(texts, has_segments) ==
    [ text |-> FullText, language |-> "english", duration |-> Duration,
      has_segments |-> has_segments, segments |-> RawSegments(texts) ]

TextLists(n) == UNION { [1..k -> RawTexts] : k \in 0..n }

Transcripts ==
    { Transcript(texts, TRUE) : texts \in TextLists(MaxSegments) }
    \cup { Transcript(<<>>, FALSE) }

\* The result dict built from a transcript (lines 111-116)
TranscriptionResult(transcript) ==
    [ type |-> "dict",
      text |-> transcript.text,
      language |-> transcript.language,
      duration |-> transcript.duration,
      segments |-> IF transcript.has_segments THEN transcript.segments
                   ELSE <<>> ]

\* The completion the translation API returns for a text, before .strip()
Completion(english_text) == <<" ", "ja:">> \o english_text \o <<"\n">>

\* translate_to_japanese once the request has returned or raised
translation_response(english_text, ok) ==
    IF ok THEN Strip(Completion(english_text)) ELSE TranslationError

----------------------------------------------------------------------------
(* One worker: process_wav_file and the process_thread around it.           *)

Threads == 1..MaxThreads

IdleThread ==
    [ pc |-> "idle",
      file_path |-> [path |-> <<>>, opens |-> FALSE, size |-> 0],
      milestones |-> <<>>,
      asr_requests |-> 0,
      asr_log |-> <<>>,
      transcription_result |-> NoResult,
      idx |-> 0,
      subtitle_segments |-> <<>>,
      translate_calls |-> 0,
      translate_requests |-> 0,
      translate_log |-> <<>>,
      result |-> NoResult ]

StartedThread(file) == [IdleThread EXCEPT !.pc = "start", !.file_path = file]

\* process_wav_file returns the value r
Return(th, r) == [th EXCEPT !.pc = "returned", !.result = r]

Report(th, message) ==
    [th EXCEPT !.milestones = Append(@, message)]

\* line 161: if not segments
UseFallbackWhenNoText(segments) ==
    \A i \in 1..Len(segments) : Strip(segments[i].text) = <<>>
UseFallback(segments) == segments = <<>>

NextNonBlank_keeping_blanks(segments, i) == i

\* The first index j >= i of a raw segment whose trimmed text is not empty
RECURSIVE NextNonBlank(_, _)
NextNonBlank(segments, i) ==
    IF i > Len(segments) THEN i
    ELSE IF Strip(segments[i].text) # <<>> THEN i
    ELSE NextNonBlank(segments, i + 1)

\* The item being translated: idx = 0 is the whole text of the fallback
ItemText(th) ==
    IF th.idx = 0 THEN th.transcription_result.text
    ELSE Strip(th.transcription_result.segments[th.idx].text)

ItemSegment(th, japanese) ==
    IF th.idx = 0
    THEN [ start |-> Zero,
           end |-> th.transcription_result.duration,
           english |-> th.transcription_result.text,
           japanese |-> japanese ]
    ELSE [ start |-> th.transcription_result.segments[th.idx].start,
           end |-> th.transcription_result.segments[th.idx].end,
           english |-> Strip(th.transcription_result.segments[th.idx].text),
           japanese |-> japanese ]

\* Lines 257-264: create_subtitle_segments has returned
Finish(th) ==
    Return(Report(th, "done"),
           [ type |-> "dict",
             segments |-> th.subtitle_segments,
             original_text |-> th.transcription_result.text,
             duration |-> th.transcription_result.duration ])

\* create_subtitle_segments from item j on, with the client c: it runs until
\* a translation request is in flight or the loop has ended. Without a
\* client translate_to_japanese returns its message at once (line 125).
RECURSIVE TranslateFrom(_, _, _)
TranslateFrom(th, j, c) ==
    LET segments == th.transcription_result.segments
        at == [th EXCEPT !.idx = j, !.translate_calls = @ + 1]
        appended ==
            [at EXCEPT !.subtitle_segments =
                           Append(@, ItemSegment(at, NoClientError)),
                       !.translate_log = Append(@, "no_client")]
    IN  IF j > Len(segments) THEN Finish(th)
        ELSE IF c = "None"
        THEN IF j = 0 THEN Finish(appended)
             ELSE TranslateFrom(appended, NextNonBlank(segments, j + 1), c)
        ELSE [at EXCEPT !.pc = "translating", !.translate_requests = @ + 1]

\* Lines 251-255: a transcription result is there; translation begins
BeginTranslation(th, transcription_result, c) ==
    LET reported ==
            [Report(th, "translating") EXCEPT
                !.transcription_result = transcription_result]
        segments == transcription_result.segments
    IN  IF UseFallback(segments) THEN TranslateFrom(reported, 0, c)
        ELSE TranslateFrom(reported, NextNonBlank(segments, 1), c)

\* The translation request of item idx has returned (ok) or raised
AfterTranslation_stopping(th, ok, c) ==
    LET segments == th.transcription_result.segments
        appended ==
            [th EXCEPT !.subtitle_segments =
                           Append(@, ItemSegment(th,
                               translation_response(ItemText(th), ok))),
                       !.translate_log =
                           Append(@, IF ok THEN "ok" ELSE "fail")]
    IN  IF th.idx = 0 \/ ~ok THEN Finish(appended)
        ELSE TranslateFrom(appended, NextNonBlank(segments, th.idx + 1), c)

AfterTranslation(th, ok, c) ==
    LET segments == th.transcription_result.segments
        appended ==
            [th EXCEPT !.subtitle_segments =
                           Append(@, ItemSegment(th,
                               translation_response(ItemText(th), ok))),
                       !.translate_log =
                           Append(@, IF ok THEN "ok" ELSE "fail")]
    IN  IF th.idx = 0 THEN Finish(appended)
        ELSE TranslateFrom(appended, NextNonBlank(segments, th.idx + 1), c)

\* Lines 234-246 with both messages reported before the extension check
Validated_reporting_first(th, c) ==
    LET recognizing == Report(Report(th, "validating"), "recognizing")
        valid == validate_wav_file(th.file_path)
    IN  IF ~HasWavExtension(th.file_path.path)
        THEN Return(recognizing, StrResult(ExtensionError))
        ELSE IF c = "None"
        THEN Return(recognizing, StrResult(NoClientError))
        ELSE IF ~valid[1]
        THEN Return(recognizing, StrResult(valid[2]))
        ELSE [recognizing EXCEPT !.pc = "asr1", !.asr_requests = @ + 1]

\* Lines 234-246 and 80-99: up to the first recognition request
Validated(th, c) ==
    LET checking == Report(th, "validating")
        recognizing == Report(checking, "recognizing")
        valid == validate_wav_file(th.file_path)
    IN  IF ~HasWavExtension(th.file_path.path)
        THEN Return(checking, StrResult(ExtensionError))
        ELSE IF c = "None"
        THEN Return(recognizing, StrResult(NoClientError))
        ELSE IF ~valid[1]
        THEN Return(recognizing, StrResult(valid[2]))
        ELSE [recognizing EXCEPT !.pc = "asr1", !.asr_requests = @ + 1]

validate_step(t) ==
    /\ threads[t].pc = "start"
    /\ threads' = [threads EXCEPT ![t] = Validated(@, client)]
    /\ UNCHANGED <<client, current_segments, messagebox,
                   bilingual_text, srt_text, japanese_text, last_write,
                   fmt_vars>>

\* The recognition request has returned a transcript
Recognized(th, transcript, c) ==
    BeginTranslation(
        [th EXCEPT !.asr_log =
            Append(@, [ok |-> TRUE, transcript |-> <<transcript>>])],
        TranscriptionResult(transcript), c)

\* Lines 100-108: the first request raised; the second is issued
FirstAttemptFailed_giving_up(th) ==
    Return([th EXCEPT !.asr_log =
                Append(@, [ok |-> FALSE, transcript |-> <<>>])],
           StrResult(AsrError))

FirstAttemptFailed(th) ==
    [th EXCEPT !.pc = "asr2",
               !.asr_requests = @ + 1,
               !.asr_log = Append(@, [ok |-> FALSE, transcript |-> <<>>])]

\* Lines 119-120 and 248-249, with the error string not recognised as one
SecondAttemptFailed_translating(th) ==
    BeginTranslation(
        [th EXCEPT !.asr_log =
            Append(@, [ok |-> FALSE, transcript |-> <<>>])],
        [ type |-> "dict", text |-> AsrError, language |-> "english",
          duration |-> Zero, segments |-> <<>> ],
        "OpenAI")

\* Lines 119-120: the second request raised too
SecondAttemptFailed(th) ==
    Return([th EXCEPT !.asr_log =
                Append(@, [ok |-> FALSE, transcript |-> <<>>])],
           StrResult(AsrError))

asr1_return(t, ok, transcript) ==
    /\ threads[t].pc = "asr1"
    /\ threads' = [threads EXCEPT ![t] =
                      IF ok THEN Recognized(@, transcript, client)
                      ELSE FirstAttemptFailed(@)]
    /\ UNCHANGED <<client, current_segments, messagebox,
                   bilingual_text, srt_text, japanese_text, last_write,
                   fmt_vars>>

asr2_return(t, ok, transcript) ==
    /\ threads[t].pc = "asr2"
    /\ threads' = [threads EXCEPT ![t] =
                      IF ok THEN Recognized(@, transcript, client)
                      ELSE SecondAttemptFailed(@)]
    /\ UNCHANGED <<client, current_segments, messagebox,
                   bilingual_text, srt_text, japanese_text, last_write,
                   fmt_vars>>

translate_return(t, ok) ==
    /\ threads[t].pc = "translating"
    /\ threads' = [threads EXCEPT ![t] = AfterTranslation(@, ok, client)]
    /\ UNCHANGED <<client, current_segments, messagebox,
                   bilingual_text, srt_text, japanese_text, last_write,
                   fmt_vars>>

----------------------------------------------------------------------------
(* Values of the GUI's fields.                                              *)

NoneValue == [kind |-> "None"]
ListValue(items) == [kind |-> "list", items |-> items]

\* Python truth of current_segments: None and [] are false
Truthy(value) == value.kind = "list" /\ value.items # <<>>

NoDialog == [kind |-> "none", message |-> <<>>]
Dialog(kind, message) == [kind |-> kind, message |-> message]

NoWrite == [kind |-> "none", lines |-> 0]

----------------------------------------------------------------------------
(* One call of process_wav_file on a drawn file (specification              *)
(* SpecPipeline): the worker is thread 1, the responses are drawn from      *)
(* Transcripts and every request may return or raise.                       *)

InitPipeline ==
    /\ client \in {"None", "OpenAI"}
    /\ current_segments = NoneValue
    /\ messagebox = NoDialog
    /\ bilingual_text = <<>>
    /\ srt_text = <<>>
    /\ japanese_text = <<>>
    /\ last_write = NoWrite
    /\ \E file \in Files :
          threads = [t \in Threads |->
                        IF t = 1 THEN StartedThread(file) ELSE IdleThread]
    /\ arg_seconds = Zero
    /\ ret_srt = <<>>
    /\ ret_display = <<>>
    /\ arg_segments = <<>>
    /\ ret_content = <<>>

NextPipeline ==
    \/ validate_step(1)
    \/ \E ok \in BOOLEAN, transcript \in Transcripts :
          asr1_return(1, ok, transcript)
    \/ \E ok \in BOOLEAN, transcript \in Transcripts :
          asr2_return(1, ok, transcript)
    \/ \E ok \in BOOLEAN : translate_return(1, ok)

SpecPipeline == InitPipeline /\ [][NextPipeline]_vars

----------------------------------------------------------------------------
(* The GUI (specification Spec): the handlers of SubtitleGeneratorGUI run   *)
(* on the interactive thread, each process_thread on a worker of its own.   *)
(* Recognition requests may raise; translation requests return (their       *)
(* failures are drawn in SpecPipeline).                                     *)

\* The files offered by the open dialog, and no selection
GuiFiles ==
    { [path |-> PathWavInDir, opens |-> TRUE, size |-> MaxFileBytes],
      [path |-> PathMp3, opens |-> TRUE, size |-> MaxFileBytes - 1] }
NoSelection == [path |-> <<>>, opens |-> FALSE, size |-> 0]

\* The responses of the recognition API in the GUI runs: one spoken
\* segment, or one segment of silence (which leaves no subtitle segment)
GuiTranscripts ==
    { Transcript(<< <<"H", "i">> >>, TRUE),
      Transcript(<< <<" ", " ">> >>, TRUE) }

\* __init__ (lines 270-277): load_saved_settings sets a saved key silently
Init ==
    /\ \E saved \in {"absent", "valid", "invalid"} :
          client = IF saved = "valid" THEN "OpenAI" ELSE "None"
    /\ current_segments = NoneValue
    /\ messagebox = NoDialog
    /\ bilingual_text = <<>>
    /\ srt_text = <<>>
    /\ japanese_text = <<>>
    /\ last_write = NoWrite
    /\ threads = [t \in Threads |-> IdleThread]
    /\ arg_seconds = Zero
    /\ ret_srt = <<>>
    /\ ret_display = <<>>
    /\ arg_segments = <<>>
    /\ ret_content = <<>>

\* SubtitleGeneratorGUI.set_api_key with show_message = True; key_entered is
\* whether the entry holds a key, accepted whether models.list() succeeds
set_api_key(key_entered, accepted) ==
    /\ client' = IF ~key_entered THEN client
                 ELSE IF accepted THEN "OpenAI" ELSE "None"
    /\ messagebox' = IF ~key_entered
                     THEN Dialog("showwarning", <<"enter_api_key">>)
                     ELSE IF accepted
                     THEN Dialog("showinfo", <<"api_key_set">>)
                     ELSE Dialog("showerror", <<"api_key_invalid">>)
    /\ UNCHANGED <<current_segments, bilingual_text, srt_text,
                   japanese_text, last_write, threads, fmt_vars>>

\* The lowest worker slot that is free
FreeSlot(t) ==
    /\ threads[t].pc = "idle"
    /\ \A u \in Threads : u < t => threads[u].pc # "idle"

\* open_file: selected is the file chosen in the dialog, or NoSelection
open_file(selected) ==
    IF client = "None"
    THEN /\ messagebox' = Dialog("showerror", <<"set_api_key_first">>)
         /\ UNCHANGED <<client, current_segments, bilingual_text,
                        srt_text, japanese_text, last_write,
                        threads, fmt_vars>>
    ELSE IF selected.path = <<>>
    THEN UNCHANGED vars
    ELSE /\ \E t \in Threads :
               /\ FreeSlot(t)
               /\ threads' = [threads EXCEPT ![t] = StartedThread(selected)]
         /\ UNCHANGED <<client, current_segments, messagebox,
                        bilingual_text, srt_text, japanese_text, last_write,
                        fmt_vars>>

\* process_thread, lines 541-550: the error is reported, or the segments
\* are stored
process_thread_store_discarding(t) ==
    /\ threads[t].pc = "returned"
    /\ IF threads[t].result.type = "str"
       THEN /\ messagebox' = Dialog("showerror", threads[t].result.value)
            /\ current_segments' = NoneValue
            /\ threads' = [threads EXCEPT ![t] = IdleThread]
       ELSE /\ current_segments' = ListValue(threads[t].result.segments)
            /\ threads' = [threads EXCEPT ![t].pc = "display"]
            /\ UNCHANGED messagebox
    /\ UNCHANGED <<client, bilingual_text, srt_text,
                   japanese_text, last_write, fmt_vars>>

process_thread_store(t) ==
    /\ threads[t].pc = "returned"
    /\ IF threads[t].result.type = "str"
       THEN /\ messagebox' = Dialog("showerror", threads[t].result.value)
            /\ threads' = [threads EXCEPT ![t] = IdleThread]
            /\ UNCHANGED current_segments
       ELSE /\ current_segments' = ListValue(threads[t].result.segments)
            /\ threads' = [threads EXCEPT ![t].pc = "display"]
            /\ UNCHANGED messagebox
    /\ UNCHANGED <<client, bilingual_text, srt_text,
                   japanese_text, last_write, fmt_vars>>

RECURSIVE JapaneseLinesFrom(_, _)
JapaneseLinesFrom(segments, i) ==
    IF i > Len(segments) THEN <<>>
    ELSE << ZeroPad(i, 2) \o <<". ">> \o segments[i].japanese, <<>> >>
         \o JapaneseLinesFrom(segments, i + 1)

\* process_thread, lines 551-553, with display_results (lines 562-584)
process_thread_display(t) ==
    /\ threads[t].pc = "display"
    /\ LET segments == threads[t].result.segments
           filename == Basename(threads[t].file_path.path)
       IN  /\ bilingual_text' =
                  << <<"file: ">> \o filename, <<>> >>
                  \o generate_bilingual_text(segments)
           /\ srt_text' = generate_srt_content(segments)
           /\ japanese_text' =
                  << <<"file: ">> \o filename,
                     <<"==================================================">>,
                     <<>> >>
                  \o JapaneseLinesFrom(segments, 1)
    /\ threads' = [threads EXCEPT ![t] = IdleThread]
    /\ UNCHANGED <<client, current_segments, messagebox, last_write,
                   fmt_vars>>

\* A save handler: extension and render are those of save_srt or of
\* save_bilingual_text; outcome is "cancel" (no path chosen), "ok" or
\* "io_error" (open or write raised)
Save_clearing(extension, content, outcome) ==
    IF ~Truthy(current_segments)
    THEN /\ messagebox' = Dialog("showwarning", <<"nothing_to_save">>)
         /\ UNCHANGED <<client, current_segments, bilingual_text,
                        srt_text, japanese_text, last_write,
                        threads, fmt_vars>>
    ELSE IF outcome = "cancel"
    THEN UNCHANGED vars
    ELSE IF outcome = "ok"
    THEN /\ last_write' = [kind |-> extension, lines |-> Len(content)]
         /\ messagebox' = Dialog("showinfo", <<"saved">>)
         /\ current_segments' = NoneValue
         /\ UNCHANGED <<client, bilingual_text,
                        srt_text, japanese_text, threads, fmt_vars>>
    ELSE /\ messagebox' = Dialog("showerror", <<"save_error: ", "e">>)
         /\ UNCHANGED <<client, current_segments, bilingual_text,
                        srt_text, japanese_text, last_write,
                        threads, fmt_vars>>

Save(extension, content, outcome) ==
    IF ~Truthy(current_segments)
    THEN /\ messagebox' = Dialog("showwarning", <<"nothing_to_save">>)
         /\ UNCHANGED <<client, current_segments, bilingual_text,
                        srt_text, japanese_text, last_write,
                        threads, fmt_vars>>
    ELSE IF outcome = "cancel"
    THEN UNCHANGED vars
    ELSE IF outcome = "ok"
    THEN /\ last_write' = [kind |-> extension, lines |-> Len(content)]
         /\ messagebox' = Dialog("showinfo", <<"saved">>)
         /\ UNCHANGED <<client, current_segments, bilingual_text,
                        srt_text, japanese_text, threads, fmt_vars>>
    ELSE /\ messagebox' = Dialog("showerror", <<"save_error: ", "e">>)
         /\ UNCHANGED <<client, current_segments, bilingual_text,
                        srt_text, japanese_text, last_write,
                        threads, fmt_vars>>

SaveOutcomes == {"cancel", "ok", "io_error"}

save_srt(outcome) ==
    Save("srt",
         IF Truthy(current_segments)
         THEN generate_srt_content(current_segments.items) ELSE <<>>,
         outcome)

save_bilingual_text(outcome) ==
    Save("txt",
         IF Truthy(current_segments)
         THEN generate_bilingual_text(current_segments.items) ELSE <<>>,
         outcome)

clear_result ==
    /\ bilingual_text' = <<>>
    /\ srt_text' = <<>>
    /\ japanese_text' = <<>>
    /\ current_segments' = NoneValue
    /\ UNCHANGED <<client, messagebox, last_write, threads, fmt_vars>>

Next ==
    \/ \E key_entered \in BOOLEAN, accepted \in BOOLEAN :
          set_api_key(key_entered, accepted)
    \/ \E selected \in GuiFiles \cup {NoSelection} : open_file(selected)
    \/ \E t \in Threads : validate_step(t)
    \/ \E t \in Threads, ok \in BOOLEAN, transcript \in GuiTranscripts :
          asr1_return(t, ok, transcript)
    \/ \E t \in Threads, ok \in BOOLEAN, transcript \in GuiTranscripts :
          asr2_return(t, ok, transcript)
    \/ \E t \in Threads : translate_return(t, TRUE)
    \/ \E t \in Threads : process_thread_store(t)
    \/ \E t \in Threads : process_thread_display(t)
    \/ \E outcome \in SaveOutcomes : save_srt(outcome)
    \/ \E outcome \in SaveOutcomes : save_bilingual_text(outcome)
    \/ clear_result

Spec == Init /\ [][Next]_vars

----------------------------------------------------------------------------
(* The formatters applied to drawn inputs (specification SpecFmt).          *)

\* An option value: <<>> is "not returned yet", <<v>> is the returned v
Unset == <<>>
Returned(v) == <<v>>

LandmarkSecs == {3599, 3600, 3661, 359999, 360000}
SampleMillis == {0, 1, 2, 349, 350, 998, 999}
\* tenths of a microsecond past the millisecond
SampleOffsets == {0, 4, 5000, 9996}

SecondsValues ==
    { Seconds(sec, ms * TicksPerMilli + off) :
        sec \in (0..MaxDenseSec) \cup LandmarkSecs,
        ms \in SampleMillis, off \in SampleOffsets }

\* n segments two seconds apart, the first starting at s
SegmentsFrom(s, n) ==
    [ i \in 1..n |->
        [ start |-> PlusSec(s, 2 * (i - 1)),
          end |-> PlusSec(s, 2 * i - 1),
          english |-> <<"H", "i">>,
          japanese |-> <<"ja">> \o Digits(i) ] ]

InitGui ==
    /\ client = "None"
    /\ current_segments = NoneValue
    /\ messagebox = NoDialog
    /\ bilingual_text = <<>>
    /\ srt_text = <<>>
    /\ japanese_text = <<>>
    /\ last_write = NoWrite

InitFmt ==
    /\ InitGui
    /\ threads = [t \in Threads |-> IdleThread]
    /\ arg_seconds \in SecondsValues
    /\ \E n \in 0..MaxBlocks : arg_segments = SegmentsFrom(arg_seconds, n)
    /\ ret_srt = Unset
    /\ ret_display = Unset
    /\ ret_content = Unset

call_format_time_srt ==
    /\ ret_srt = Unset
    /\ ret_srt' = Returned(format_time_srt(arg_seconds))
    /\ UNCHANGED <<gui_vars, threads, arg_seconds, ret_display, arg_segments,
                   ret_content>>

call_format_time_display ==
    /\ ret_display = Unset
    /\ ret_display' = Returned(format_time_display(arg_seconds))
    /\ UNCHANGED <<gui_vars, threads, arg_seconds, ret_srt, arg_segments,
                   ret_content>>

call_generate_srt_content ==
    /\ ret_content = Unset
    /\ ret_content' = Returned(generate_srt_content(arg_segments))
    /\ UNCHANGED <<gui_vars, threads, arg_seconds, ret_srt, ret_display,
                   arg_segments>>

NextFmt ==
    \/ call_format_time_srt
    \/ call_format_time_display
    \/ call_generate_srt_content

SpecFmt == InitFmt /\ [][NextFmt]_vars

----------------------------------------------------------------------------
(* Reading a timestamp back (used by the properties only).                  *)

IsDigit(c) == \E d \in 1..10 : DigitChars[d] = c

DigitValue(c) == (CHOOSE d \in 1..10 : DigitChars[d] = c) - 1

AllDigits(s) == \A i \in 1..Len(s) : IsDigit(s[i])

RECURSIVE ParseInt(_)
ParseInt(s) ==
    IF s = <<>> THEN 0
    ELSE 10 * ParseInt(SubSeq(s, 1, Len(s) - 1)) + DigitValue(s[Len(s)])

\* ^\d{2,}:\d{2}:\d{2},\d{3}$
MatchesSrtShape(s) ==
    LET n == Len(s)
    IN  /\ n >= 12
        /\ AllDigits(SubSeq(s, 1, n - 10))
        /\ s[n - 9] = ":"
        /\ AllDigits(SubSeq(s, n - 8, n - 7))
        /\ s[n - 6] = ":"
        /\ AllDigits(SubSeq(s, n - 5, n - 4))
        /\ s[n - 3] = ","
        /\ AllDigits(SubSeq(s, n - 2, n))

SrtHours(s) == ParseInt(SubSeq(s, 1, Len(s) - 10))
SrtMinutes(s) == ParseInt(SubSeq(s, Len(s) - 8, Len(s) - 7))
SrtSecs(s) == ParseInt(SubSeq(s, Len(s) - 5, Len(s) - 4))
SrtMillis(s) == ParseInt(SubSeq(s, Len(s) - 2, Len(s)))

\* hours*3600 + minutes*60 + seconds + ms/1000
ParseSrt(s) ==
    Seconds(SrtHours(s) * 3600 + SrtMinutes(s) * 60 + SrtSecs(s),
            SrtMillis(s) * TicksPerMilli)

\* a <= b, a < b on seconds values
TimeLE(a, b) == a.sec < b.sec \/ (a.sec = b.sec /\ a.tk <= b.tk)
TimeLT(a, b) == a.sec < b.sec \/ (a.sec = b.sec /\ a.tk < b.tk)

\* a + 1 ms
PlusMilli(a) ==
    IF a.tk + TicksPerMilli >= TicksPerSec
    THEN Seconds(a.sec + 1, a.tk + TicksPerMilli - TicksPerSec)
    ELSE Seconds(a.sec, a.tk + TicksPerMilli)

\* |a - b| <= 1 ms
Within1ms(a, b) == TimeLE(a, PlusMilli(b)) /\ TimeLE(b, PlusMilli(a))

\* ^\d{2,}:\d{2}$
MatchesDisplayShape(s) ==
    LET n == Len(s)
    IN  /\ n >= 5
        /\ AllDigits(SubSeq(s, 1, n - 3))
        /\ s[n - 2] = ":"
        /\ AllDigits(SubSeq(s, n - 1, n))

DisplayMinutes(s) == ParseInt(SubSeq(s, 1, Len(s) - 3))
DisplaySecs(s) == ParseInt(SubSeq(s, Len(s) - 1, Len(s)))

\* The two timestamps of a "start --> end" line
ArrowAt(line) == CHOOSE i \in 1..Len(line) : line[i] = " --> "
LineStart(line) == SubSeq(line, 1, ArrowAt(line) - 1)
LineEnd(line) == SubSeq(line, ArrowAt(line) + 1, Len(line))

----------------------------------------------------------------------------
(* Properties of the formatters.                                            *)

\* C7: for every seconds value s >= 0, format_time_srt(s) has the shape
\* HH:MM:SS,mmm (hours at least two digits, minutes and seconds 00..59,
\* milliseconds 000..999) and reads back as a value p with
\* s - 1ms < p <= s: milliseconds are truncated, never rounded up.
C7_SrtTruncates ==
    ret_srt # Unset =>
        LET out == ret_srt[1]
            p == ParseSrt(out)
        IN  /\ MatchesSrtShape(out)
            /\ SrtMinutes(out) \in 0..59
            /\ SrtSecs(out) \in 0..59
            /\ SrtMillis(out) \in 0..999
            /\ TimeLE(p, arg_seconds)
            /\ TimeLT(arg_seconds, PlusMilli(p))

\* C8: for every seconds value s >= 0, format_time_display(s) has the shape
\* MM:SS, its minute component is floor(s/60) (two digits or more, past 59
\* without an hour component) and its seconds component is floor(s) mod 60.
C8_DisplayMinutes ==
    ret_display # Unset =>
        LET out == ret_display[1]
        IN  /\ MatchesDisplayShape(out)
            /\ DisplayMinutes(out) * 60 <= arg_seconds.sec
            /\ arg_seconds.sec < (DisplayMinutes(out) + 1) * 60
            /\ DisplaySecs(out) = arg_seconds.sec - DisplayMinutes(out) * 60
            /\ DisplaySecs(out) \in 0..59

\* C8 witness: a value past one hour was formatted with minutes above 59
C8_Witness ==
    /\ ret_display # Unset
    /\ arg_seconds.sec >= 3600
    /\ DisplayMinutes(ret_display[1]) > 59

\* C6: for every segment sequence of length N (N = 0 included),
\* generate_srt_content emits exactly N blocks in order, block i numbered i
\* and carrying the SRT-formatted start and end of segment i and its
\* japanese text; the timestamps of block i read back as the segment's
\* start and end within 1 ms.
C6_SrtBlocks ==
    ret_content # Unset =>
        LET lines == ret_content[1]
            N == Len(arg_segments)
        IN  /\ Len(lines) = 4 * N
            /\ \A i \in 1..N :
                LET seg == arg_segments[i]
                    timing == lines[4 * i - 2]
                IN  /\ lines[4 * i - 3] = Digits(i)
                    /\ \E a \in 1..Len(timing) : timing[a] = " --> "
                    /\ LineStart(timing) = format_time_srt(seg.start)
                    /\ LineEnd(timing) = format_time_srt(seg.end)
                    /\ lines[4 * i - 1] = seg.japanese
                    /\ lines[4 * i] = <<>>
                    /\ Within1ms(ParseSrt(LineStart(timing)), seg.start)
                    /\ Within1ms(ParseSrt(LineEnd(timing)), seg.end)


----------------------------------------------------------------------------
(* Properties of one process_wav_file call.                                 *)

\* The path ends in ".wav", compared without regard to case
EndsInWavAnyCase(path) ==
    LET n == Len(path)
    IN  /\ n >= 4
        /\ path[n - 3] = "."
        /\ path[n - 2] \in {"w", "W"}
        /\ path[n - 1] \in {"a", "A"}
        /\ path[n] \in {"v", "V"}

NonBlank(segment) == Strip(segment.text) # <<>>

\* The raw segments a finished worker was given
RawOf(th) == th.transcription_result.segments

Succeeded(th) == th.pc = "returned" /\ th.result.type = "dict"

\* C1: a file whose path does not end in ".wav" (any case), that does not
\* open as audio, or that is larger than 25*1024*1024 bytes gets an error
\* string and no recognition or translation request is ever issued for it;
\* a file of exactly 25*1024*1024 bytes is not rejected for its size.
C1_ValidationGatesRequests ==
    \A t \in Threads :
        LET th == threads[t]
            file == th.file_path
        IN  /\ ( \/ ~EndsInWavAnyCase(file.path)
                 \/ ~file.opens
                 \/ file.size > 25 * 1024 * 1024 )
               => /\ th.asr_requests = 0
                  /\ th.translate_requests = 0
                  /\ th.translate_calls = 0
                  /\ th.pc = "returned" => th.result.type = "str"
            /\ ( /\ th.pc = "returned"
                 /\ file.size = 25 * 1024 * 1024
                 /\ th.result.type = "str" )
               => th.result.value # TooLargeError
            /\ ( /\ th.pc = "returned"
                 /\ EndsInWavAnyCase(file.path)
                 /\ file.opens
                 /\ file.size = 25 * 1024 * 1024
                 /\ client = "OpenAI" )
               => th.asr_requests >= 1

\* C1 witness: an oversized .wav file was rejected although a client is set
C1_Witness ==
    \E t \in Threads :
        /\ threads[t].pc = "returned"
        /\ client = "OpenAI"
        /\ EndsInWavAnyCase(threads[t].file_path.path)
        /\ threads[t].file_path.opens
        /\ threads[t].file_path.size > 25 * 1024 * 1024
        /\ threads[t].result = StrResult(TooLargeError)
        /\ threads[t].asr_requests = 0

\* C2: for a transcription result with a non-empty raw segment list the
\* segments returned are exactly the raw segments whose trimmed text is not
\* empty, in order, each with the raw start and end and the trimmed text as
\* english; blank segments give no element and no translation call.
C2_NonBlankSubsequence ==
    \A t \in Threads :
        LET th == threads[t]
            kept == SelectSeq(RawOf(th), NonBlank)
            out == th.result.segments
        IN  (Succeeded(th) /\ RawOf(th) # <<>>) =>
                /\ Len(out) = Len(kept)
                /\ th.translate_calls = Len(kept)
                /\ \A i \in 1..Len(kept) :
                      /\ out[i].start = kept[i].start
                      /\ out[i].end = kept[i].end
                      /\ out[i].english = Strip(kept[i].text)

\* C2 witness: three raw segments, the middle one blank, gave two segments
C2_Witness ==
    \E t \in Threads :
        /\ Succeeded(threads[t])
        /\ Len(RawOf(threads[t])) = 3
        /\ ~NonBlank(RawOf(threads[t])[2])
        /\ Len(threads[t].result.segments) = 2

\* C3: with an empty (or absent) raw segment list exactly one translation
\* call is made, on the full text, and one segment with start 0, end
\* duration and english = text is returned; a non-empty raw list of blank
\* segments does not take this fallback and gives the empty sequence.
C3_WholeClipFallback ==
    \A t \in Threads :
        LET th == threads[t]
            out == th.result.segments
        IN  Succeeded(th) =>
                /\ RawOf(th) = <<>> =>
                      /\ Len(out) = 1
                      /\ out[1].start = Zero
                      /\ out[1].end = th.transcription_result.duration
                      /\ out[1].english = th.transcription_result.text
                      /\ th.translate_calls = 1
                      /\ th.translate_log = <<"ok">> =>
                            out[1].japanese =
                                Strip(Completion(th.transcription_result.text))
                /\ ( /\ RawOf(th) # <<>>
                     /\ \A i \in 1..Len(RawOf(th)) : ~NonBlank(RawOf(th)[i]) )
                   => (out = <<>> /\ th.translate_calls = 0)

\* C3 witness: a response without segments gave the single whole-clip segment
C3_Witness ==
    \E t \in Threads :
        /\ Succeeded(threads[t])
        /\ RawOf(threads[t]) = <<>>
        /\ Len(threads[t].result.segments) = 1
        /\ threads[t].result.segments[1].end = Duration

\* C4: whichever translation calls fail, one segment per non-blank raw
\* segment is returned, in the same order; a failed call leaves the labeled
\* error string as japanese and the segments after it are still translated.
C4_TranslationFailureNotTerminal ==
    \A t \in Threads :
        LET th == threads[t]
            kept == SelectSeq(RawOf(th), NonBlank)
            out == th.result.segments
        IN  (Succeeded(th) /\ RawOf(th) # <<>>) =>
                /\ Len(out) = Len(kept)
                /\ Len(th.translate_log) = Len(kept)
                /\ \A i \in 1..Len(kept) :
                      /\ out[i].english = Strip(kept[i].text)
                      /\ th.translate_log[i] = "fail" =>
                            out[i].japanese = TranslationError
                      /\ th.translate_log[i] = "ok" =>
                            out[i].japanese =
                                Strip(Completion(Strip(kept[i].text)))

\* C4 witness: the first translation failed and the second was still made
C4_Witness ==
    \E t \in Threads :
        /\ Succeeded(threads[t])
        /\ threads[t].translate_log = <<"fail", "ok">>
        /\ Len(threads[t].result.segments) = 2
        /\ threads[t].result.segments[1].japanese = TranslationError

\* C5: at most two recognition requests are issued per file, the second if
\* and only if the first failed; the result of the request that succeeded
\* is used, and when both fail a labeled error string is returned.
C5_TwoAttempts ==
    \A t \in Threads :
        LET th == threads[t]
            log == th.asr_log
        IN  /\ th.asr_requests <= 2
            /\ Len(log) <= th.asr_requests
            /\ th.asr_requests = 2 <=> (Len(log) >= 1 /\ ~log[1].ok)
            /\ (th.pc = "returned" /\ Len(log) = 1) =>
                  /\ log[1].ok
                  /\ th.transcription_result =
                        TranscriptionResult(log[1].transcript[1])
                  /\ th.result.type = "dict"
                  /\ th.result.original_text = log[1].transcript[1].text
            /\ (th.pc = "returned" /\ Len(log) = 2 /\ log[2].ok) =>
                  /\ th.transcription_result =
                        TranscriptionResult(log[2].transcript[1])
                  /\ th.result.type = "dict"
            /\ (th.pc = "returned" /\ Len(log) = 2 /\ ~log[2].ok) =>
                  th.result = StrResult(AsrError)

\* C5 witness: the first request failed and the second one's result was used
C5_Witness ==
    \E t \in Threads :
        /\ Succeeded(threads[t])
        /\ threads[t].asr_requests = 2
        /\ Len(threads[t].asr_log) = 2
        /\ ~threads[t].asr_log[1].ok
        /\ threads[t].asr_log[2].ok

\* A step in which process_thread of worker t handles the value returned
\* by process_wav_file (lines 541-550)
Handled(t) == threads[t].pc = "returned" /\ threads'[t].pc # "returned"

\* A step of clear_result that empties a filled result view
ViewsCleared == bilingual_text # <<>> /\ bilingual_text' = <<>>

\* C9 as stated: once a next file has been processed, current_segments is
\* the sequence built from that file, or none; a sequence built from an
\* earlier file is no longer held.
C9_DiscardedOnNextFile ==
    [][\A t \in Threads :
          Handled(t) =>
              \/ current_segments' = NoneValue
              \/ /\ threads[t].result.type = "dict"
                 /\ current_segments' =
                        ListValue(threads[t].result.segments)]_vars

\* C9 amended: current_segments is replaced by the sequence of a file whose
\* processing returned a result, and discarded by clear_result; a file whose
\* processing returned an error string leaves it as it was, and nothing else
\* changes it.
C9_ReplacedOnResultOrClear ==
    [][/\ \A t \in Threads :
             Handled(t) =>
                 current_segments' =
                     IF threads[t].result.type = "dict"
                     THEN ListValue(threads[t].result.segments)
                     ELSE current_segments
       /\ ViewsCleared => current_segments' = NoneValue
       /\ current_segments' # current_segments =>
             \/ \E t \in Threads :
                   /\ Handled(t)
                   /\ threads[t].result.type = "dict"
             \/ /\ current_segments' = NoneValue
                /\ bilingual_text' = <<>>
                /\ srt_text' = <<>>
                /\ japanese_text' = <<>>]_vars

\* C9 witness: segments were held and saved, a file processed after that
\* save was refused for its extension, and the segments are still held
C9_Witness ==
    /\ Truthy(current_segments)
    /\ last_write.kind = "srt"
    /\ messagebox = Dialog("showerror", ExtensionError)
    /\ \A t \in Threads : threads[t].pc = "idle"

\* The dialogs of the save handlers (lines 589/611, 603/625, 606/628)
SaveDialogs ==
    { Dialog("showwarning", <<"nothing_to_save">>),
      Dialog("showinfo", <<"saved">>),
      Dialog("showerror", <<"save_error: ", "e">>) }

\* A step of save_srt or save_bilingual_text that wrote a file or showed
\* a dialog
SaveStep ==
    \/ last_write' # last_write
    \/ messagebox' # messagebox /\ messagebox' \in SaveDialogs

\* C10: save_srt and save_bilingual_text leave current_segments unchanged
\* whether the write succeeds, raises, is cancelled or is refused, and no
\* file is written while current_segments is None or empty.
C10_SaveLeavesSegments ==
    [][/\ SaveStep => current_segments' = current_segments
       /\ ~Truthy(current_segments) => last_write' = last_write]_vars

\* C10 witness: a write raised, nothing was written and the segments are
\* still held
C10_Witness ==
    /\ messagebox = Dialog("showerror", <<"save_error: ", "e">>)
    /\ last_write = NoWrite
    /\ Truthy(current_segments)

\* The translation requests of a worker that have returned or raised
Answered(th) ==
    Len(SelectSeq(th.translate_log, LAMBDA e : e \in {"ok", "fail"}))

\* The recognition request that returned a transcript, if any
TranscriptionSucceeded(th) ==
    /\ th.asr_log # <<>>
    /\ th.asr_log[Len(th.asr_log)].ok
    /\ th.transcription_result.type = "dict"

\* C12: the remote calls of one invocation are sequential. No translation
\* call is made before a recognition request has returned a result, and
\* none at all when transcription gave an error string; at most one request
\* is in flight at any time; the translation calls follow the order of the
\* raw segments, each answered before the next is made; and the number of
\* translation calls equals the number of segments returned.
C12_SequentialCalls ==
    \A t \in Threads :
        LET th == threads[t]
            kept == IF th.transcription_result.type = "dict"
                    THEN SelectSeq(RawOf(th), NonBlank) ELSE <<>>
            done == Len(th.subtitle_segments)
            in_flight == IF th.pc = "translating" THEN 1 ELSE 0
        IN  /\ th.translate_calls > 0 => TranscriptionSucceeded(th)
            /\ (th.pc = "returned" /\ th.result.type = "str") =>
                  (th.translate_calls = 0 /\ th.translate_requests = 0)
            /\ th.asr_requests - Len(th.asr_log) =
                  IF th.pc \in {"asr1", "asr2"} THEN 1 ELSE 0
            /\ th.pc \in {"asr1", "asr2"} => th.translate_calls = 0
            /\ th.translate_requests - Answered(th) = in_flight
            /\ th.translate_calls = done + in_flight
            /\ Len(th.translate_log) = done
            /\ (th.translate_calls > 0 /\ RawOf(th) # <<>>) =>
                  /\ th.translate_calls <= Len(kept)
                  /\ \A i \in 1..done :
                        th.subtitle_segments[i].start = kept[i].start
                  /\ th.pc = "translating" =>
                        RawOf(th)[th.idx].start = kept[done + 1].start
            /\ Succeeded(th) =>
                  /\ th.result.segments = th.subtitle_segments
                  /\ th.translate_calls = Len(th.result.segments)

\* C12 witness: the second of three translation calls is in flight, the
\* first has been answered and the third has not been made
C12_Witness ==
    \E t \in Threads :
        /\ threads[t].pc = "translating"
        /\ Len(SelectSeq(RawOf(threads[t]), NonBlank)) = 3
        /\ threads[t].translate_calls = 2
        /\ Len(threads[t].subtitle_segments) = 1

\* The progress messages of process_wav_file, in the order of its code
\* (lines 236, 243, 252, 258)
Milestones == <<"validating", "recognizing", "translating", "done">>

\* C13: the progress messages reported by one invocation are a prefix of
\* validating, recognizing, translating, done; "recognizing" is reported
\* only after the extension check passed, "translating" only after
\* transcription succeeded, and "done" if and only if the invocation returns
\* a result rather than an error string.
C13_MilestonesInOrder ==
    \A t \in Threads :
        LET th == threads[t]
            n == Len(th.milestones)
        IN  /\ n <= Len(Milestones)
            /\ th.milestones = SubSeq(Milestones, 1, n)
            /\ th.pc \notin {"idle", "start"} => n >= 1
            /\ n >= 2 => EndsInWavAnyCase(th.file_path.path)
            /\ n >= 3 => TranscriptionSucceeded(th)
            /\ n = 4 => th.result.type = "dict"
            /\ th.pc = "returned" => (n = 4 <=> th.result.type = "dict")
            /\ (th.pc = "returned" /\ th.result = StrResult(ExtensionError))
                  => n = 1
            /\ (th.pc = "returned" /\ th.result.type = "str"
                                   /\ th.result # StrResult(ExtensionError))
                  => n = 2

\* C13 witness: both recognition requests failed; the invocation returned
\* the error string after reporting validating and recognizing only
C13_Witness ==
    \E t \in Threads :
        /\ threads[t].pc = "returned"
        /\ threads[t].result = StrResult(AsrError)
        /\ threads[t].milestones = <<"validating", "recognizing">>

----------------------------------------------------------------------------
(* Properties of the workers under the GUI.                                 *)

\* process_wav_file of the worker has been called and has not returned
Running(th) == th.pc \in {"start", "asr1", "asr2", "translating"}

\* C11: at most one pipeline invocation is in progress at any time: no
\* second worker is started while one is still running.
C11_OneInvocation ==
    Cardinality({t \in Threads : Running(threads[t])}) <= 1

\* A step of worker t: its code runs on, or the request it waits for
\* returns or raises
worker_step(t) ==
    \/ validate_step(t)
    \/ \E ok \in BOOLEAN, transcript \in GuiTranscripts :
          asr1_return(t, ok, transcript)
    \/ \E ok \in BOOLEAN, transcript \in GuiTranscripts :
          asr2_return(t, ok, transcript)
    \/ translate_return(t, TRUE)
    \/ process_thread_store(t)
    \/ process_thread_display(t)

\* The GUI with every started thread scheduled and every remote call
\* eventually returning or raising
SpecLive == Spec /\ \A t \in Threads : WF_vars(worker_step(t))

\* C14: once a pipeline invocation has started it eventually finishes, its
\* result stored and displayed or its error reported, whatever the user
\* does meanwhile; and no user action keeps its remaining remote calls from
\* being issued: every translation call it makes issues its request.
C14_NoCancellation ==
    /\ \A t \in Threads :
          (threads[t].pc # "idle") ~> (threads[t].pc = "idle")
    /\ [](\A t \in Threads :
             threads[t].translate_requests = threads[t].translate_calls)

============================================================================
